---- MODULE Spec2Model ----
(***************************************************************************)
(* A model of qtos.Unmarshal (src/qtos.go): decoding a flat, multi-valued  *)
(* key -> raw values mapping into a nested destination value.               *)
(*                                                                         *)
(* Strings (keys, raw values, field names) are sequences of one-character  *)
(* strings, so that the regular expressions, the prefix tests and the      *)
(* numeric conversions of the source are computed character by character.  *)
(*                                                                         *)
(* A reflect.Type is a record with a `kind` field; a reflect.Value is a    *)
(* record tagged with its kind (see the constructors below).  The `base`   *)
(* parameter of bind only feeds error messages and is left out; an error   *)
(* is the flag `err` with no message.                                       *)
(***************************************************************************)
EXTENDS Integers, Sequences, FiniteSets, TLC

VARIABLES
    validPtr,   \* whether v is a non-nil pointer (src/qtos.go:28)
    values,     \* the url.Values argument: key -> list of raw values
    todo,       \* the keys the range loop has not yet visited
    val,        \* the destination value *v
    err,        \* whether Unmarshal returns a non-nil error
    pc,         \* "start", "range" or "done"
    prev,       \* the destination before the last call of bind
    order       \* the keys visited so far, in the order the loop took them

vars == <<validPtr, values, todo, val, err, pc, prev, order>>

----------------------------------------------------------------------------
(* Bounds of the model. *)

\* The largest number of keys in the flat mapping.
MaxKeys == 3

----------------------------------------------------------------------------
(* Characters and strings. *)

Lower == {"a","b","c","d","e","f","g","h","i","j","k","l","m",
          "n","o","p","q","r","s","t","u","v","w","x","y","z"}
Upper == {"A","B","C","D","E","F","G","H","I","J","K","L","M",
          "N","O","P","Q","R","S","T","U","V","W","X","Y","Z"}
Digit == {"0","1","2","3","4","5","6","7","8","9"}

DigitVal(c) ==
    CASE c = "0" -> 0 [] c = "1" -> 1 [] c = "2" -> 2 [] c = "3" -> 3
      [] c = "4" -> 4 [] c = "5" -> 5 [] c = "6" -> 6 [] c = "7" -> 7
      [] c = "8" -> 8 [] c = "9" -> 9

\* name[n:] and name[:n] of Go.
Drop(s, n) == SubSeq(s, n + 1, Len(s))
Take(s, n) == SubSeq(s, 1, n)

\* strings.HasPrefix(s, p)
HasPrefix(s, p) == Len(s) >= Len(p) /\ Take(s, Len(p)) = p

MaxOf(S) == CHOOSE x \in S : \A y \in S : y <= x

\* fieldRegexp.FindString(name): the longest prefix matching
\* ^[a-zA-Z_][a-zA-Z0-9_]*, the empty string when there is none.
fieldRegexp(name) ==
    LET first(c) == c \in Lower \cup Upper \cup {"_"}
        rest(c)  == c \in Lower \cup Upper \cup Digit \cup {"_"}
        ok(n) == /\ n >= 1
                 /\ first(name[1])
                 /\ \A i \in 2..n : rest(name[i])
        L == {n \in 1..Len(name) : ok(n)}
    IN  IF L = {} THEN <<>> ELSE Take(name, MaxOf(L))

\* indexRegexp.FindString(name): ^\[[0-9]+\]
indexRegexp(name) ==
    LET ok(n) == /\ n >= 3
                 /\ name[1] = "["
                 /\ name[n] = "]"
                 /\ \A i \in 2..(n-1) : name[i] \in Digit
        L == {n \in 1..Len(name) : ok(n)}
    IN  IF L = {} THEN <<>> ELSE Take(name, MaxOf(L))

\* mapKeyRegexp.FindString(name): ^\[[^\]]+\]
mapKeyRegexp(name) ==
    LET ok(n) == /\ n >= 3
                 /\ name[1] = "["
                 /\ name[n] = "]"
                 /\ \A i \in 2..(n-1) : name[i] # "]"
        L == {n \in 1..Len(name) : ok(n)}
    IN  IF L = {} THEN <<>> ELSE Take(name, MaxOf(L))

----------------------------------------------------------------------------
(* Values (reflect.Value) and results. *)

Invalid       == [kind |-> "invalid"]
IntV(i)       == [kind |-> "int", v |-> i]
StrV(s)       == [kind |-> "string", v |-> s]
BoolV(b)      == [kind |-> "bool", v |-> b]
IfaceNil      == [kind |-> "interface", isnil |-> TRUE, v |-> <<>>]
IfaceV(s)     == [kind |-> "interface", isnil |-> FALSE, v |-> s]
SliceV(n, e)  == [kind |-> "slice", isnil |-> n, elems |-> e]
MapV(n, f)    == [kind |-> "map", isnil |-> n, m |-> f]
StructV(fs)   == [kind |-> "struct", fields |-> fs]

Ok(v)   == [err |-> FALSE, val |-> v]
Fail(v) == [err |-> TRUE, val |-> v]

\* reflect.Zero(typ) / reflect.Indirect(reflect.New(typ))
RECURSIVE Zero(_)
RECURSIVE zeroFields(_, _)
zeroFields(typ, n) ==
    IF n = 0 THEN <<>>
    ELSE Append(zeroFields(typ, n - 1), Zero(typ.fields[n].typ))

Zero(typ) ==
    CASE typ.kind = "int"       -> IntV(0)
      [] typ.kind = "string"    -> StrV(<<>>)
      [] typ.kind = "bool"      -> BoolV(FALSE)
      [] typ.kind = "interface" -> IfaceNil
      [] typ.kind = "slice"     -> SliceV(TRUE, <<>>)
      [] typ.kind = "map"       -> MapV(TRUE, <<>>)
      [] typ.kind = "struct"    ->
            StructV(zeroFields(typ, Len(typ.fields)))

\* n zero values of the element type of typ.
RECURSIVE zeroElems(_, _)
zeroElems(typ, n) ==
    IF n <= 0 THEN <<>> ELSE Append(zeroElems(typ, n - 1), Zero(typ.elem))

\* reflect.MakeSlice(typ, n, n)
MakeSlice(typ, n) == SliceV(FALSE, zeroElems(typ, n))

\* val.MapIndex(k): the zero (invalid) Value when k is not in the map.
MapIndex(mv, k) == IF k \in DOMAIN mv.m THEN mv.m[k] ELSE Invalid

\* val.SetMapIndex(k, x)
SetMapIndex(mv, k, x) ==
    [mv EXCEPT !.m = [j \in (DOMAIN mv.m) \cup {k} |->
                         IF j = k THEN x ELSE mv.m[j]]]

----------------------------------------------------------------------------
(* Scalar conversion. *)

RECURSIVE DigitsVal(_)
DigitsVal(ds) ==
    IF ds = <<>> THEN 0
    ELSE 10 * DigitsVal(Take(ds, Len(ds) - 1)) + DigitVal(ds[Len(ds)])

\* strconv.Atoi on the digits the index expression matched.
Atoi(ds) == DigitsVal(ds)

\* strconv.ParseInt(value, 10, 64): an optional sign and one or more decimal
\* digits.  The raw values of the model stay far below 2^63.
ParseInt(value) ==
    LET signed == value # <<>> /\ value[1] \in {"+", "-"}
        ds     == IF signed THEN Tail(value) ELSE value
    IN  IF ds = <<>> \/ \E i \in 1..Len(ds) : ds[i] \notin Digit
        THEN [err |-> TRUE, i |-> 0]
        ELSE [err |-> FALSE,
              i |-> IF signed /\ value[1] = "-" THEN 0 - DigitsVal(ds)
                    ELSE DigitsVal(ds)]

\* strconv.ParseBool
ParseBool(value) ==
    IF value \in {<<"1">>, <<"t">>, <<"T">>, <<"T","R","U","E">>,
                  <<"t","r","u","e">>, <<"T","r","u","e">>}
    THEN [err |-> FALSE, b |-> TRUE]
    ELSE IF value \in {<<"0">>, <<"f">>, <<"F">>, <<"F","A","L","S","E">>,
                       <<"f","a","l","s","e">>, <<"F","a","l","s","e">>}
    THEN [err |-> FALSE, b |-> FALSE]
    ELSE [err |-> TRUE, b |-> FALSE]

\* getValue returns value as a reflect.Value of type typ.  No type of the
\* model has a float kind, so the ParseFloat case is not among the cases.
getValue(typ, value) ==
    CASE typ.kind = "string" -> Ok(StrV(value))
      [] typ.kind = "int" ->
            LET r == ParseInt(value)
            IN  IF r.err THEN Fail(Zero(typ)) ELSE Ok(IntV(r.i))
      [] typ.kind = "bool" ->
            LET r == ParseBool(value)
            IN  IF r.err THEN Fail(Zero(typ)) ELSE Ok(BoolV(r.b))
      [] typ.kind = "interface" -> Ok(IfaceV(value))
      [] OTHER -> Fail(Zero(typ))

----------------------------------------------------------------------------
(* Field lookup. *)

\* getStructField: the mapping from styp.Tag.Get(StructTag), or styp.Name
\* when the tag is empty, to the field index; a later field with the same
\* name overwrites an earlier one.
getStructField(typ, name) ==
    LET valueName(i) == IF typ.fields[i].tag = <<>> THEN typ.fields[i].name
                        ELSE typ.fields[i].tag
        hits == {i \in 1..Len(typ.fields) : valueName(i) = name}
    IN  IF hits = {} THEN [ok |-> FALSE, i |-> 0]
        ELSE [ok |-> TRUE, i |-> MaxOf(hits)]

----------------------------------------------------------------------------
(* Merging. *)

\* mergeValues with the map case left to the default: the incoming map
\* replaces the existing one.
mergeValuesOverwrite(a, b) ==
    IF a.kind = "invalid" THEN Ok(b)
    ELSE IF a.kind # b.kind THEN Fail(a)
    ELSE CASE a.kind = "slice" ->
                IF a.isnil THEN Ok(b)
                ELSE LET swap == Len(b.elems) > Len(a.elems)
                         aa == IF swap THEN b ELSE a
                         bb == IF swap THEN a ELSE b
                     IN  Ok([aa EXCEPT !.elems =
                               bb.elems \o Drop(aa.elems, Len(bb.elems))])
           [] OTHER -> Ok(b)

mergeValues(a, b) ==
    IF a.kind = "invalid" THEN Ok(b)
    ELSE IF a.kind # b.kind THEN Fail(a)
    ELSE CASE a.kind = "slice" ->
                IF a.isnil THEN Ok(b)
                ELSE LET swap == Len(b.elems) > Len(a.elems)
                         aa == IF swap THEN b ELSE a
                         bb == IF swap THEN a ELSE b
                     IN  Ok([aa EXCEPT !.elems =
                               bb.elems \o Drop(aa.elems, Len(bb.elems))])
           [] a.kind = "map" ->
                IF a.isnil THEN Ok(b)
                ELSE Ok([a EXCEPT !.m =
                           [k \in (DOMAIN a.m) \cup (DOMAIN b.m) |->
                               IF k \in DOMAIN b.m THEN b.m[k] ELSE a.m[k]]])
           [] OTHER -> Ok(b)

----------------------------------------------------------------------------
(* bind. *)

\* The loop of src/qtos.go:91-97: convert and append each raw value in turn;
\* the first conversion error returns with the earlier values appended.
RECURSIVE appendValues(_, _, _)

\* appendValues putting each converted value in front of the slice.
appendValuesInFront(typ, val_, value) ==
    IF value = <<>> THEN Ok(val_)
    ELSE LET vv == getValue(typ.elem, Head(value))
         IN  IF vv.err THEN Fail(val_)
             ELSE appendValues(typ,
                               SliceV(FALSE, <<vv.val>> \o val_.elems),
                               Tail(value))

appendValues(typ, val_, value) ==
    IF value = <<>> THEN Ok(val_)
    ELSE LET vv == getValue(typ.elem, Head(value))
         IN  IF vv.err THEN Fail(val_)
             ELSE appendValues(typ,
                               SliceV(FALSE, Append(val_.elems, vv.val)),
                               Tail(value))

\* src/qtos.go:107-119: make the slice, or grow it to index+1 elements.  The
\* slices of a decode only ever grow, so the spare capacity SetLen uncovers
\* holds zero values, as does the tail of a fresh MakeSlice after Copy.
\* growSlice without the reflect.Copy of the old elements.
growSliceNoCopy(typ, val_, index) ==
    IF val_.isnil \/ Len(val_.elems) < index + 1
    THEN MakeSlice(typ, index + 1)
    ELSE val_

growSlice(typ, val_, index) ==
    IF val_.isnil THEN MakeSlice(typ, index + 1)
    ELSE IF Len(val_.elems) < index + 1
    THEN SliceV(FALSE, val_.elems
                         \o zeroElems(typ, index + 1 - Len(val_.elems)))
    ELSE val_

RECURSIVE bind(_, _, _, _)

\* bindLeaf taking the first raw value whatever their number.
bindLeafFirstOnly(typ, val_, value) ==
    LET r == getValue(typ, value[1])
    IN  IF r.err THEN Fail(val_) ELSE Ok(r.val)

\* src/qtos.go:47-58: name is empty, value is assigned to val.
bindLeaf(typ, val_, value) ==
    IF Len(value) > 1 THEN Fail(val_)
    ELSE LET r == getValue(typ, value[1])
         IN  IF r.err THEN Fail(val_) ELSE Ok(r.val)

\* isSliceIndex without the test of the destination's kind.
isSliceIndexAnyKind(typ, name) == indexRegexp(name) # <<>>

\* src/qtos.go:101-104: the index form is tried with a slice destination only.
isSliceIndex(typ, name) == typ.kind = "slice" /\ indexRegexp(name) # <<>>

\* src/qtos.go:66-79: name starts with a field name.
bindField(typ, val_, name, value) ==
    LET field == fieldRegexp(name)
    IN  IF typ.kind # "struct" THEN Fail(val_)
        ELSE LET f == getStructField(typ, field)
             IN  IF ~f.ok THEN Ok(val_)
                 ELSE LET r == bind(typ.fields[f.i].typ, val_.fields[f.i],
                                    Drop(name, Len(field)), value)
                      IN  [err |-> r.err,
                           val |-> [val_ EXCEPT !.fields[f.i] = r.val]]

\* bindAppend without the test that "[]" ends the key.
bindAppendAnywhere(typ, val_, name, value) ==
    IF typ.kind # "slice" THEN Fail(val_)
    ELSE appendValues(typ, val_, value)

\* src/qtos.go:81-99: name starts with "[]".
bindAppend(typ, val_, name, value) ==
    IF typ.kind # "slice" THEN Fail(val_)
    ELSE IF Len(name) # 2 THEN Fail(val_)
    ELSE appendValues(typ, val_, value)

\* src/qtos.go:102-133: a slice destination and name starts with "[<digits>]".
bindIndex(typ, val_, name, value) ==
    LET indexStr == indexRegexp(name)
        index    == Atoi(SubSeq(indexStr, 2, Len(indexStr) - 1))
        grown    == growSlice(typ, val_, index)
        t        == typ.elem
        v        == Zero(t)
        r        == bind(t, v, Drop(name, Len(indexStr)), value)
    IN  IF r.err THEN Fail(grown)
        ELSE LET mv == mergeValues(grown.elems[index + 1], r.val)
             IN  IF mv.err THEN Fail(grown)
                 ELSE Ok([grown EXCEPT !.elems[index + 1] = mv.val])

\* src/qtos.go:135-161: name starts with "[<key>]".
bindMapKey(typ, val_, name, value) ==
    LET key == mapKeyRegexp(name)
    IN  IF typ.kind # "map" THEN Fail(val_)
        ELSE LET made == IF val_.isnil THEN MapV(FALSE, <<>>) ELSE val_
                 t    == typ.elem
                 v    == Zero(t)
                 r    == bind(t, v, Drop(name, Len(key)), value)
             IN  IF r.err THEN Fail(made)
                 ELSE LET k == getValue(typ.key, SubSeq(key, 2, Len(key) - 1))
                      IN  IF k.err THEN Fail(made)
                          ELSE LET mv == mergeValues(MapIndex(made, k.val), r.val)
                               IN  IF mv.err THEN Fail(made)
                                   ELSE Ok(SetMapIndex(made, k.val, mv.val))

\* bind is called recursively while parsing the value name.
bind(typ, val_, name0, value) ==
    IF name0 = <<>> THEN bindLeaf(typ, val_, value)
    ELSE LET name == IF name0[1] = "." THEN Tail(name0) ELSE name0
         IN  IF fieldRegexp(name) # <<>> THEN bindField(typ, val_, name, value)
             ELSE IF HasPrefix(name, <<"[", "]">>)
                  THEN bindAppend(typ, val_, name, value)
             ELSE IF isSliceIndex(typ, name)
                  THEN bindIndex(typ, val_, name, value)
             ELSE IF mapKeyRegexp(name) # <<>>
                  THEN bindMapKey(typ, val_, name, value)
             ELSE Fail(val_)

----------------------------------------------------------------------------
(* The destination type and the flat mappings of the model. *)

TInt    == [kind |-> "int"]
TString == [kind |-> "string"]
TSlice(e)  == [kind |-> "slice", elem |-> e]
TMap(k, e) == [kind |-> "map", key |-> k, elem |-> e]
Field(n, tg, t) == [name |-> n, tag |-> tg, typ |-> t]

\* type rec struct { A int `query:"a"`; Bf int `query:"b"` }
TRec == [kind |-> "struct",
         fields |-> << Field(<<"A">>, <<"a">>, TInt),
                       Field(<<"B","f">>, <<"b">>, TInt) >>]

\* The destination: a struct with one field of each shape.
\*   A  int                       `query:"a"`
\*   B  string                    (no tag: addressed by its declared name)
\*   S  []string                  `query:"s"`
\*   I  []int                     `query:"i"`
\*   P  []rec                     `query:"p"`
\*   M  map[string][]string       `query:"m"`
\*   N  map[string]int            `query:"n"`
\*   K  map[int]string            `query:"k"`
\*   Q  []map[int]int             `query:"q"`
\*   W  map[string]map[int]int    `query:"w"`
DestType ==
    [kind |-> "struct",
     fields |-> << Field(<<"A">>, <<"a">>, TInt),
                   Field(<<"B">>, <<>>, TString),
                   Field(<<"S">>, <<"s">>, TSlice(TString)),
                   Field(<<"I">>, <<"i">>, TSlice(TInt)),
                   Field(<<"P">>, <<"p">>, TSlice(TRec)),
                   Field(<<"M">>, <<"m">>, TMap(TString, TSlice(TString))),
                   Field(<<"N">>, <<"n">>, TMap(TString, TInt)),
                   Field(<<"K">>, <<"k">>, TMap(TInt, TString)),
                   Field(<<"Q">>, <<"q">>, TSlice(TMap(TInt, TInt))),
                   Field(<<"W">>, <<"w">>, TMap(TString, TMap(TInt, TInt))) >>]

\* The position of each field in DestType.
FieldOf(tg) == (getStructField(DestType, tg)).i

\* The keys of the model, by name.
K_a     == <<"a">>
K_dota  == <<".","a">>
K_B     == <<"B">>
K_zz    == <<"z","z">>
K_zz0y  == <<"z","z","[","0","]",".","y">>
K_p0a   == <<"p","[","0","]",".","a">>
K_p0b   == <<"p","[","0","]",".","b">>
K_p0zz  == <<"p","[","0","]",".","z","z">>
K_pAa   == <<"p","[","]",".","a">>
K_sA    == <<"s","[","]">>
K_s0    == <<"s","[","0","]">>
K_s1    == <<"s","[","1","]">>
K_s5    == <<"s","[","5","]">>
K_sA0   == <<"s","[","]","[","0","]">>
K_iA    == <<"i","[","]">>
K_i1    == <<"i","[","1","]">>
K_mk0   == <<"m","[","k","]","[","0","]">>
K_mk1   == <<"m","[","k","]","[","1","]">>
K_mk2   == <<"m","[","k","]","[","2","]">>
K_nx    == <<"n","[","x","]">>
K_n7    == <<"n","[","7","]">>
K_k07   == <<"k","[","0","7","]">>
K_kx    == <<"k","[","x","]">>
K_q01   == <<"q","[","0","]","[","1","]">>
K_q03   == <<"q","[","0","]","[","3","]">>
K_qA2   == <<"q","[","]","[","2","]">>
K_wk1   == <<"w","[","k","]","[","1","]">>
K_wk3   == <<"w","[","k","]","[","3","]">>

E(k, v) == [key |-> k, value |-> v]

\* The entries of a flat mapping: scalar fields, unknown names and a
\* sequence of records.
RecordPool ==
    { E(K_a,    << <<"1">> >>),
      E(K_dota, << <<"2">> >>),
      E(K_B,    << <<"f">>, <<"g">> >>),
      E(K_zz,   << <<"1">> >>),
      E(K_zz0y, << <<"1">>, <<"2">> >>),
      E(K_p0a,  << <<"1">> >>),
      E(K_p0b,  << <<"2">> >>),
      E(K_p0zz, << <<"3">> >>),
      E(K_pAa,  << <<"1">> >>) }

\* Sequences of scalars, at the top level and as a mapping value.
SequencePool ==
    { E(K_sA,  << <<"u">>, <<"v">> >>),
      E(K_s0,  << <<"b">> >>),
      E(K_s1,  << <<"w">> >>),
      E(K_s5,  << <<"y">> >>),
      E(K_sA0, << <<"c">> >>),
      E(K_iA,  << <<"7">>, <<"0","8">> >>),
      E(K_i1,  << <<"5">> >>),
      E(K_mk0, << <<"x">> >>),
      E(K_mk1, << <<"y">> >>),
      E(K_mk2, << <<"z">> >>) }

\* Mappings, at the top level, as a sequence element and as a mapping value.
MappingPool ==
    { E(K_nx,  << <<"1">>, <<"2">> >>),
      E(K_n7,  << <<"3">> >>),
      E(K_k07, << <<"t">> >>),
      E(K_kx,  << <<"t">> >>),
      E(K_q01, << <<"2">> >>),
      E(K_q03, << <<"4">> >>),
      E(K_qA2, << <<"3">> >>),
      E(K_wk1, << <<"2">> >>),
      E(K_wk3, << <<"4">> >>) }

RECURSIVE EntrySets(_, _)
EntrySets(pool, n) ==
    IF n = 0 THEN {{}}
    ELSE LET R == EntrySets(pool, n - 1)
         IN  R \cup {r \cup {e} : r \in R, e \in pool}

\* The flat mappings: at most MaxKeys entries of one pool.
Mappings ==
    { [k \in {e.key : e \in S} |-> (CHOOSE e \in S : e.key = k).value] :
        S \in EntrySets(RecordPool, MaxKeys)
              \cup EntrySets(SequencePool, MaxKeys)
              \cup EntrySets(MappingPool, MaxKeys) }

----------------------------------------------------------------------------
(* Unmarshal as a state machine. *)

Init ==
    /\ validPtr \in BOOLEAN
    /\ values \in Mappings
    /\ todo = DOMAIN values
    /\ val = Zero(DestType)
    /\ err = FALSE
    /\ pc = "start"
    /\ prev = Zero(DestType)
    /\ order = <<>>

\* src/qtos.go:28-30: v is not a pointer, or is nil.
NotAPointer ==
    /\ pc = "start"
    /\ ~validPtr
    /\ err' = TRUE
    /\ pc' = "done"
    /\ UNCHANGED <<validPtr, values, todo, val, prev, order>>

\* src/qtos.go:30-33: v is dereferenced.
Deref ==
    /\ pc = "start"
    /\ validPtr
    /\ pc' = "range"
    /\ UNCHANGED <<validPtr, values, todo, val, err, prev, order>>

\* src/qtos.go:35-39: one iteration of the range loop, over whichever key
\* the map iteration yields next.
BindKey ==
    /\ pc = "range"
    /\ \E name \in todo :
          LET r == bind(DestType, val, name, values[name])
          IN  /\ val' = r.val
              /\ err' = r.err
              /\ pc' = IF r.err THEN "done" ELSE "range"
              /\ todo' = todo \ {name}
              /\ prev' = val
              /\ order' = Append(order, name)
    /\ UNCHANGED <<validPtr, values>>

\* src/qtos.go:41: the loop is over.
Return ==
    /\ pc = "range"
    /\ todo = {}
    /\ pc' = "done"
    /\ UNCHANGED <<validPtr, values, todo, val, err, prev, order>>

Next == NotAPointer \/ Deref \/ BindKey \/ Return

Spec == Init /\ [][Next]_vars

----------------------------------------------------------------------------
(* Properties. *)

\* The key the last call of bind handled.
Last == order[Len(order)]
Stepped(k) == order # <<>> /\ Last = k

\* The field of the destination with tag (or name) tg, now and before the
\* last call of bind.
F(tg)  == val.fields[FieldOf(tg)]
PF(tg) == prev.fields[FieldOf(tg)]

Max2(a, b) == IF a >= b THEN a ELSE b

\* The loop of Unmarshal (src/qtos.go:35-41) over the keys in the order o.
RECURSIVE unmarshalIn(_, _)
unmarshalIn(v, o) ==
    IF o = <<>> THEN Ok(v)
    ELSE LET r == bind(DestType, v, Head(o), values[Head(o)])
         IN  IF r.err THEN r ELSE unmarshalIn(r.val, Tail(o))

\* Every order of the keys in S.
Orders(S) ==
    {o \in [1..Cardinality(S) -> S] :
        \A i, j \in 1..Cardinality(S) : i # j => o[i] # o[j]}

\* C1: the outcome of Unmarshal (success or failure, and the decoded value
\* on success) is the same for every order in which the loop takes the keys.
C1_OrderInsensitive ==
    (pc = "done" /\ validPtr) =>
        \A o \in Orders(DOMAIN values) :
            LET r == unmarshalIn(Zero(DestType), o)
            IN  r.err = err /\ (~err => r.val = val)

\* C2: after p[0].a=1 and p[0].b=2, in either order, p holds exactly one
\* record, with a = 1 and b = 2.
C2_BothFieldsBound ==
    ( /\ pc = "done"
      /\ ~err
      /\ {K_p0a, K_p0b} \subseteq DOMAIN values
      /\ K_p0zz \notin DOMAIN values )
    => F(<<"p">>) = SliceV(FALSE, << StructV(<<IntV(1), IntV(2)>>) >>)

\* The keys m[k][i] of the model, with the index each one writes.
MIndexKeys == { [key |-> K_mk0, i |-> 0],
                [key |-> K_mk1, i |-> 1],
                [key |-> K_mk2, i |-> 2] }

\* C3: after the keys m[k][i], in any order, the sequence at m[k] has length
\* max(i)+1, holds the value of m[k][i] at every written index i and the
\* zero value at every other index.
C3_IndexedWritesKept ==
    LET W == {e \in MIndexKeys : e.key \in DOMAIN values}
    IN  (pc = "done" /\ ~err /\ W # {}) =>
            LET top == MaxOf({e.i : e \in W})
                sl  == F(<<"m">>).m[StrV(<<"k">>)]
            IN  /\ Len(sl.elems) = top + 1
                /\ \A e \in W : sl.elems[e.i + 1] = StrV(values[e.key][1])
                /\ \A j \in 0..top :
                      (\A e \in W : e.i # j) => sl.elems[j + 1] = StrV(<<>>)

\* The keys of the model that index a sequence field of the destination:
\* the field, the index, and what binding the rest of the key leaves in
\* the element.
IndexKeys ==
    { [key |-> K_s0,   f |-> <<"s">>, i |-> 0],
      [key |-> K_s1,   f |-> <<"s">>, i |-> 1],
      [key |-> K_s5,   f |-> <<"s">>, i |-> 5],
      [key |-> K_i1,   f |-> <<"i">>, i |-> 1],
      [key |-> K_p0a,  f |-> <<"p">>, i |-> 0],
      [key |-> K_p0b,  f |-> <<"p">>, i |-> 0],
      [key |-> K_q01,  f |-> <<"q">>, i |-> 0],
      [key |-> K_q03,  f |-> <<"q">>, i |-> 0] }

BoundAt(key, e) ==
    CASE key = K_s0  -> e = StrV(<<"b">>)
      [] key = K_s1  -> e = StrV(<<"w">>)
      [] key = K_s5  -> e = StrV(<<"y">>)
      [] key = K_i1  -> e = IntV(5)
      [] key = K_p0a -> e.fields[1] = IntV(1)
      [] key = K_p0b -> e.fields[2] = IntV(2)
      [] key = K_q01 -> e.m[IntV(1)] = IntV(2)
      [] key = K_q03 -> e.m[IntV(3)] = IntV(4)

\* C4: binding an index segment [i] on a sequence of length n leaves it with
\* length max(n, i+1); every other old position keeps its value, every
\* other new position holds the zero value, and position i holds the bound
\* value.
C4_IndexGrowth ==
    \A k \in IndexKeys :
        (Stepped(k.key) /\ ~err) =>
            LET old == PF(k.f).elems
                new == F(k.f).elems
                n   == Len(old)
                t   == DestType.fields[FieldOf(k.f)].typ
            IN  /\ Len(new) = Max2(n, k.i + 1)
                /\ \A j \in 1..Len(new) :
                      j # k.i + 1 =>
                          new[j] = IF j <= n THEN old[j] ELSE Zero(t.elem)
                /\ BoundAt(k.key, new[k.i + 1])

\* s[5]=y on the nil sequence: six elements, five of them zero.
C4_Witness ==
    /\ Stepped(K_s5)
    /\ ~err
    /\ PF(<<"s">>).isnil
    /\ F(<<"s">>).elems = << StrV(<<>>), StrV(<<>>), StrV(<<>>), StrV(<<>>),
                             StrV(<<>>), StrV(<<"y">>) >>

\* The keys of the model in which bind meets a field name the record at
\* that position does not resolve.
UnknownFieldKeys == {K_zz, K_zz0y, K_p0zz}

\* C5: a key whose next segment is an unresolved field name binds with
\* success and leaves the whole destination unchanged.
C5_UnknownFieldNoEffect ==
    \A k \in UnknownFieldKeys : Stepped(k) => (~err /\ val = prev)

\* C6: a key that reaches a leaf with more than one raw value makes
\* Unmarshal return an error, and the leaf is not assigned: B keeps its
\* value, and no entry x is stored in n.
C6_MultipleValuesRejected ==
    /\ (Stepped(K_B) /\ Len(values[K_B]) > 1) =>
          (err /\ pc = "done" /\ F(<<"B">>) = PF(<<"B">>))
    /\ (Stepped(K_nx) /\ Len(values[K_nx]) > 1) =>
          (err /\ pc = "done" /\ StrV(<<"x">>) \notin DOMAIN F(<<"n">>).m)

C6_Witness == Stepped(K_nx) /\ Len(values[K_nx]) > 1 /\ err /\ pc = "done" /\ ~F(<<"n">>).isnil

\* The keys of the model with text after an append marker, and the sequence
\* field the marker addresses.
AppendThenTextKeys ==
    { [key |-> K_pAa, f |-> <<"p">>],
      [key |-> K_qA2, f |-> <<"q">>],
      [key |-> K_sA0, f |-> <<"s">>] }

\* C7: an append marker followed by further key text makes Unmarshal return
\* an error, and no element is appended to the addressed sequence.
C7_AppendOnlyAtEnd ==
    \A k \in AppendThenTextKeys :
        Stepped(k.key) => (err /\ pc = "done" /\ F(k.f) = PF(k.f))

C7_Witness ==
    Stepped(K_sA0) /\ err /\ Len(PF(<<"s">>).elems) > 0
        /\ F(<<"s">>) = PF(<<"s">>)

\* C8: a key ending in [] with k raw values that all convert appends them,
\* converted, in their input order after the n elements already there.
C8_AppendAll ==
    /\ Stepped(K_sA) =>
          (~err /\ F(<<"s">>).elems =
                      PF(<<"s">>).elems \o << StrV(<<"u">>), StrV(<<"v">>) >>)
    /\ Stepped(K_iA) =>
          (~err /\ F(<<"i">>).elems =
                      PF(<<"i">>).elems \o << IntV(7), IntV(8) >>)

C8_Witness ==
    /\ Stepped(K_iA)
    /\ ~err
    /\ PF(<<"i">>).elems = << IntV(0), IntV(5) >>
    /\ F(<<"i">>).elems = << IntV(0), IntV(5), IntV(7), IntV(8) >>

\* What a key [n] on a mapping field stores: exactly one entry, under n
\* converted to the key kind, beside the entries already there.
StoresEntry(tg, k, x) ==
    /\ F(tg).kind = "map"
    /\ ~F(tg).isnil
    /\ DOMAIN F(tg).m = (DOMAIN PF(tg).m) \cup {k}
    /\ F(tg).m[k] = x
    /\ \A j \in DOMAIN PF(tg).m : j # k => F(tg).m[j] = PF(tg).m[j]

\* C9: [n] is a sequence index only on a sequence; on a mapping it succeeds
\* and stores exactly one entry whose key is n converted to the key kind:
\* the text "7" for n[7], the integer 7 for k[07].
C9_DigitsKeyOnMapping ==
    /\ Stepped(K_n7) =>
          (~err /\ StoresEntry(<<"n">>, StrV(<<"7">>), IntV(3)))
    /\ Stepped(K_k07) =>
          (~err /\ StoresEntry(<<"k">>, IntV(7), StrV(<<"t">>)))
    /\ Stepped(K_s1) =>
          (~err /\ F(<<"s">>).kind = "slice"
                /\ F(<<"s">>).elems[2] = StrV(<<"w">>))

C9_Witness ==
    /\ Stepped(K_k07)
    /\ ~err
    /\ PF(<<"k">>).isnil
    /\ F(<<"k">>) = MapV(FALSE, IntV(7) :> StrV(<<"t">>))

\* The mapping {1: 2, 3: 4}.
TwoEntries == MapV(FALSE, IntV(1) :> IntV(2) @@ IntV(3) :> IntV(4))

\* C10: after q[0][1]=2 and q[0][3]=4 (a mapping as a sequence element), or
\* w[k][1]=2 and w[k][3]=4 (as a mapping value), in either order, the
\* mapping holds exactly the two entries.
C10_MapMergeKeepsBoth ==
    (pc = "done" /\ ~err) =>
        /\ {K_q01, K_q03} \subseteq DOMAIN values =>
              F(<<"q">>) = SliceV(FALSE, <<TwoEntries>>)
        /\ {K_wk1, K_wk3} \subseteq DOMAIN values =>
              F(<<"w">>) = MapV(FALSE, StrV(<<"k">>) :> TwoEntries)

C10_Witness ==
    /\ pc = "done"
    /\ ~err
    /\ order = <<K_q03, K_q01>>
    /\ F(<<"q">>) = SliceV(FALSE, <<TwoEntries>>)

====
